---- MODULE Spec2Model ----
(***************************************************************************)
(* A model of the factori-imp procedural macros.                           *)
(*                                                                         *)
(*   factori!(...)     define.rs   define_macro: parse the definitions,    *)
(*                                 validate each, emit the builder type,   *)
(*                                 its default(), its build() and the      *)
(*                                 mixin enum with extend().               *)
(*   create!(...)      create.rs   create_macro: parse the request, emit   *)
(*                                 Builder::build(B { overrides, ..fold }) *)
(*   create_vec!(...)  create.rs   create_vec_macro: (0..count).map(create)*)
(*                                                                         *)
(* The macros work on token streams.  A token is a record                  *)
(*   [k, s, n, body]  with k in {"id","punct","lit","brace"}.              *)
(* Value expressions and types are opaque to the macros; the model uses    *)
(* integer literals for expressions and single identifiers for types.      *)
(* The code the macros emit is kept as a small syntax tree, which is then  *)
(* checked as the Rust compiler checks the emitted items (unknown enum     *)
(* variant, unknown or repeated struct field, unbound name) and evaluated. *)
(***************************************************************************)
EXTENDS Integers, Sequences, FiniteSets, TLC

(***************************************************************************)
(* Bounds of the model.                                                    *)
(***************************************************************************)
\* longest list of `:mixin` references in one request
MaxMixins == 2
\* longest list of `field: value` overrides in one request
MaxOverrides == 2
\* largest count given to create_vec!
MaxCount == 2
\* most blocks in one definition drawn for the definition parser
MaxBlocks == 3
\* most definitions in one factori!() declaration
MaxDefs == 3
\* most items (mixin references and overrides, in any order) in one request
MaxItems == 3

(***************************************************************************)
(* Tokens.                                                                 *)
(***************************************************************************)
Id(s) == [k |-> "id", s |-> s, n |-> 0, body |-> <<>>]

P(s) == [k |-> "punct", s |-> s, n |-> 0, body |-> <<>>]

Lit(n) == [k |-> "lit", s |-> "", n |-> n, body |-> <<>>]

\* a brace-delimited group; s is empty for a group the macros look into and
\* names the code for an opaque builder body
Brace(s, body) == [k |-> "brace", s |-> s, n |-> 0, body |-> body]

\* ParseStream::peek / parse::<Ident>() / parse::<Token![..]>() at cursor i
IsId(ts, i) == i <= Len(ts) /\ ts[i].k = "id"

IsPunct(ts, i, p) == i <= Len(ts) /\ ts[i].k = "punct" /\ ts[i].s = p

\* parse::<Expr>(): expressions are integer literals in the model
IsExpr(ts, i) == i <= Len(ts) /\ ts[i].k = "lit"

\* braced!(inner in input)
IsBrace(ts, i) == i <= Len(ts) /\ ts[i].k = "brace"

\* the key of a block is compared with ==, a mixin reference by its name
KeyIs(ts, i, name) == ts[i].s = name

RECURSIVE Flatten(_)
Flatten(ss) == IF ss = <<>> THEN <<>> ELSE Head(ss) \o Flatten(Tail(ss))

Range(s) == {s[i] : i \in 1..Len(s)}

NoDup(s) == \A i, j \in 1..Len(s) : s[i] = s[j] => i = j

\* sequences over S of length 0..n
SeqUpTo(S, n) == UNION {[1..m -> S] : m \in 0..n}

(***************************************************************************)
(* define.rs: the block parsers.  Each returns [ok |-> FALSE] on a syn     *)
(* error and the parsed block otherwise.                                   *)
(***************************************************************************)
ParseError == [ok |-> FALSE]

RECURSIVE DefaultBlock_loop(_, _, _, _, _)
DefaultBlock_loop(inner, i, fields, types, values) ==
  IF i > Len(inner)
  THEN [ok |-> TRUE, fields |-> fields, types |-> types, values |-> values]
  ELSE IF ~IsId(inner, i) THEN ParseError
  ELSE LET hasTy == IsPunct(inner, i + 1, ":")
           eq == IF hasTy THEN i + 3 ELSE i + 1
       IN IF hasTy /\ ~IsId(inner, i + 2) THEN ParseError
          ELSE IF ~IsPunct(inner, eq, "=") THEN ParseError
          ELSE IF ~IsExpr(inner, eq + 1) THEN ParseError
          ELSE DefaultBlock_loop(inner,
                 IF IsPunct(inner, eq + 2, ",") THEN eq + 3 ELSE eq + 2,
                 Append(fields, inner[i].s),
                 Append(types, IF hasTy THEN <<inner[i + 2].s>> ELSE <<>>),
                 Append(values, inner[eq + 1].n))

\* DefaultBlock::parse at cursor i: one brace group of `id (: type)? = expr ,?`
DefaultBlock_parse(ts, i) ==
  IF ~IsBrace(ts, i) THEN ParseError
  ELSE DefaultBlock_loop(ts[i].body, 1, <<>>, <<>>, <<>>)

RECURSIVE MixinBlock_loop(_, _, _, _)
MixinBlock_loop(inner, i, fields, values) ==
  IF i > Len(inner)
  THEN [ok |-> TRUE, fields |-> fields, values |-> values]
  ELSE IF ~IsId(inner, i) THEN ParseError
  ELSE IF ~IsPunct(inner, i + 1, "=") THEN ParseError
  ELSE IF ~IsExpr(inner, i + 2) THEN ParseError
  ELSE MixinBlock_loop(inner,
         IF IsPunct(inner, i + 3, ",") THEN i + 4 ELSE i + 3,
         Append(fields, inner[i].s),
         Append(values, inner[i + 2].n))

\* MixinBlock::parse at cursor i: a name, then a brace group of `id = expr ,?`
MixinBlock_parse(ts, i) ==
  IF ~IsId(ts, i) THEN ParseError
  ELSE IF ~IsBrace(ts, i + 1) THEN ParseError
  ELSE LET r == MixinBlock_loop(ts[i + 1].body, 1, <<>>, <<>>)
       IN IF ~r.ok THEN ParseError
          ELSE [ok |-> TRUE, name |-> ts[i].s,
                fields |-> r.fields, values |-> r.values]

RECURSIVE TransientBlock_loop(_, _, _, _, _)
TransientBlock_loop(inner, i, fields, values, types) ==
  IF i > Len(inner)
  THEN [ok |-> TRUE, fields |-> fields, values |-> values, types |-> types]
  ELSE IF ~IsId(inner, i) THEN ParseError
  ELSE IF ~IsPunct(inner, i + 1, ":") THEN ParseError
  ELSE IF ~IsId(inner, i + 2) THEN ParseError
  ELSE IF ~IsPunct(inner, i + 3, "=") THEN ParseError
  ELSE IF ~IsExpr(inner, i + 4) THEN ParseError
  ELSE TransientBlock_loop(inner,
         IF IsPunct(inner, i + 5, ",") THEN i + 6 ELSE i + 5,
         Append(fields, inner[i].s),
         Append(values, inner[i + 4].n),
         Append(types, inner[i + 2].s))

\* TransientBlock::parse at cursor i: a brace group of `id : type = expr ,?`
TransientBlock_parse(ts, i) ==
  IF ~IsBrace(ts, i) THEN ParseError
  ELSE TransientBlock_loop(ts[i].body, 1, <<>>, <<>>, <<>>)

(***************************************************************************)
(* define.rs: Definition::parse.  Options are sequences of length 0 or 1.  *)
(***************************************************************************)
\* the loop state before the first block (lines 151-154)
Definition_start ==
  [ok |-> TRUE, i |-> 1, default |-> <<>>, transient |-> <<>>,
   builder |-> <<>>, mixins |-> <<>>]

Definition_fail(st) == [st EXCEPT !.ok = FALSE]

\* Definition_step skipping the token after an unknown key as well
Definition_step_skip_block(inner, st) ==
  LET i == st.i IN
  IF ~IsId(inner, i) THEN Definition_fail(st)
  ELSE IF KeyIs(inner, i, "default") THEN
    IF st.default # <<>> THEN Definition_fail(st)
    ELSE LET r == DefaultBlock_parse(inner, i + 1)
         IN IF ~r.ok THEN Definition_fail(st)
            ELSE [st EXCEPT !.default = <<r>>, !.i = i + 2]
  ELSE IF KeyIs(inner, i, "builder") THEN
    IF st.builder # <<>> THEN Definition_fail(st)
    ELSE IF i + 1 > Len(inner) THEN Definition_fail(st)
    ELSE [st EXCEPT !.builder = <<inner[i + 1]>>, !.i = i + 2]
  ELSE IF KeyIs(inner, i, "mixin") THEN
    LET r == MixinBlock_parse(inner, i + 1)
    IN IF ~r.ok THEN Definition_fail(st)
       ELSE [st EXCEPT !.mixins = Append(@, r), !.i = i + 3]
  ELSE IF KeyIs(inner, i, "transient") THEN
    IF st.transient # <<>> THEN Definition_fail(st)
    ELSE LET r == TransientBlock_parse(inner, i + 1)
         IN IF ~r.ok THEN Definition_fail(st)
            ELSE [st EXCEPT !.transient = <<r>>, !.i = i + 2]
  ELSE [st EXCEPT !.i = IF IsBrace(inner, i + 1) THEN i + 2 ELSE i + 1]

\* one turn of the block loop (lines 161-179): read the key at the cursor
\* and, for the four known keys, the block after it.  Any other key falls
\* through the if/else chain: only the key itself has been consumed.
Definition_step(inner, st) ==
  LET i == st.i IN
  IF ~IsId(inner, i) THEN Definition_fail(st)
  ELSE IF KeyIs(inner, i, "default") THEN
    IF st.default # <<>> THEN Definition_fail(st)
    ELSE LET r == DefaultBlock_parse(inner, i + 1)
         IN IF ~r.ok THEN Definition_fail(st)
            ELSE [st EXCEPT !.default = <<r>>, !.i = i + 2]
  ELSE IF KeyIs(inner, i, "builder") THEN
    IF st.builder # <<>> THEN Definition_fail(st)
    ELSE IF i + 1 > Len(inner) THEN Definition_fail(st)
    ELSE [st EXCEPT !.builder = <<inner[i + 1]>>, !.i = i + 2]
  ELSE IF KeyIs(inner, i, "mixin") THEN
    LET r == MixinBlock_parse(inner, i + 1)
    IN IF ~r.ok THEN Definition_fail(st)
       ELSE [st EXCEPT !.mixins = Append(@, r), !.i = i + 3]
  ELSE IF KeyIs(inner, i, "transient") THEN
    IF st.transient # <<>> THEN Definition_fail(st)
    ELSE LET r == TransientBlock_parse(inner, i + 1)
         IN IF ~r.ok THEN Definition_fail(st)
            ELSE [st EXCEPT !.transient = <<r>>, !.i = i + 2]
  ELSE [st EXCEPT !.i = i + 1]

\* loop { if inner.is_empty() { break; } ... } (lines 156-180)
RECURSIVE Definition_loop(_, _)
Definition_loop(inner, st) ==
  IF ~st.ok \/ st.i > Len(inner) THEN st
  ELSE Definition_loop(inner, Definition_step(inner, st))

\* Definition::parse taking an empty default block when none was written
Definition_parse_default_optional(ts, i) ==
  IF ~IsId(ts, i) THEN ParseError
  ELSE IF ~IsPunct(ts, i + 1, ",") THEN ParseError
  ELSE IF ~IsBrace(ts, i + 2) THEN ParseError
  ELSE LET st == Definition_loop(ts[i + 2].body, Definition_start)
       IN IF ~st.ok THEN ParseError
          ELSE [ok |-> TRUE, next |-> i + 3, ty |-> ts[i].s,
                default |-> IF st.default = <<>>
                            THEN [ok |-> TRUE, fields |-> <<>>,
                                  types |-> <<>>, values |-> <<>>]
                            ELSE st.default[1],
                transient |-> st.transient,
                builder |-> st.builder, mixins |-> st.mixins]

\* Definition::parse at cursor i of the macro input: `ty , { block* }`.
\* next is the cursor after the definition.
Definition_parse(ts, i) ==
  IF ~IsId(ts, i) THEN ParseError
  ELSE IF ~IsPunct(ts, i + 1, ",") THEN ParseError
  ELSE IF ~IsBrace(ts, i + 2) THEN ParseError
  ELSE LET st == Definition_loop(ts[i + 2].body, Definition_start)
       IN IF ~st.ok THEN ParseError
          ELSE IF st.default = <<>> THEN ParseError
          ELSE [ok |-> TRUE, next |-> i + 3, ty |-> ts[i].s,
                default |-> st.default[1], transient |-> st.transient,
                builder |-> st.builder, mixins |-> st.mixins]

\* MultipleDefinition::parse: definitions back to back until the input ends
RECURSIVE MultipleDefinition_loop(_, _, _)
MultipleDefinition_loop(ts, i, definitions) ==
  IF i > Len(ts) THEN [ok |-> TRUE, definitions |-> definitions]
  ELSE LET d == Definition_parse(ts, i)
       IN IF ~d.ok THEN ParseError
          ELSE MultipleDefinition_loop(ts, d.next, Append(definitions, d))

MultipleDefinition_parse(ts) == MultipleDefinition_loop(ts, 1, <<>>)

(***************************************************************************)
(* define.rs: Definition::validate.  The result is an Option: <<>> when    *)
(* the definition passes, <<name>> with the identifier the error's span    *)
(* points at otherwise.                                                    *)
(***************************************************************************)
\* .iter().zip(types).filter(|(_, ty)| ty.is_none()): positions, in order
MissingTypes(def) ==
  {i \in 1..Len(def.default.fields) : def.default.types[i] = <<>>}

Min(S) == CHOOSE x \in S : \A y \in S : x <= y

\* Definition::validate reporting an untyped field with or without a builder
Definition_validate_always(def) ==
  IF MissingTypes(def) # {}
  THEN <<def.default.fields[Min(MissingTypes(def))]>>
  ELSE <<>>

Definition_validate(def) ==
  IF MissingTypes(def) # {} /\ def.builder # <<>>
  THEN <<def.default.fields[Min(MissingTypes(def))]>>
  ELSE <<>>

(***************************************************************************)
(* define.rs: the code generators.  The emitted items are kept as records  *)
(* that follow the quote! templates.                                       *)
(***************************************************************************)
\* generate_transient_parts: the struct field declarations, the
\* `field: value` initialisers and the `let field = self.field;` bindings
generate_transient_parts(def) ==
  IF def.transient # <<>>
  THEN [decl_fields |-> def.transient[1].fields,
        decl_types |-> [i \in 1..Len(def.transient[1].types) |->
                          <<def.transient[1].types[i]>>],
        init_fields |-> def.transient[1].fields,
        init_values |-> def.transient[1].values,
        lets |-> def.transient[1].fields]
  ELSE [decl_fields |-> <<>>, decl_types |-> <<>>, init_fields |-> <<>>,
        init_values |-> <<>>, lets |-> <<>>]

\* generate_builder pairing the fields with the values in the opposite order
generate_builder_misaligned(def) ==
  LET tr == generate_transient_parts(def)
      rev(v) == [i \in 1..Len(v) |-> v[Len(v) + 1 - i]]
  IN
  IF def.builder = <<>>
  THEN [ty |-> def.ty, is_struct |-> FALSE,
        struct_fields |-> <<>>, struct_types |-> <<>>,
        init_fields |-> def.default.fields,
        init_values |-> rev(def.default.values),
        lets |-> <<>>, body |-> <<>>]
  ELSE [ty |-> def.ty, is_struct |-> TRUE,
        struct_fields |-> def.default.fields \o tr.decl_fields,
        struct_types |-> def.default.types \o tr.decl_types,
        init_fields |-> def.default.fields \o tr.init_fields,
        init_values |-> rev(def.default.values \o tr.init_values),
        lets |-> def.default.fields \o tr.lets,
        body |-> def.builder]

\* generate_builder.  Without a builder block the builder type is an alias
\* of the target type, default() is the struct literal of the default
\* fields only and build() returns self.  With one, a struct of the default
\* and transient fields is declared, default() initialises both groups and
\* build() binds every field by name before the builder body.
generate_builder(def) ==
  LET tr == generate_transient_parts(def) IN
  IF def.builder = <<>>
  THEN [ty |-> def.ty, is_struct |-> FALSE,
        struct_fields |-> <<>>, struct_types |-> <<>>,
        init_fields |-> def.default.fields,
        init_values |-> def.default.values,
        lets |-> <<>>, body |-> <<>>]
  ELSE [ty |-> def.ty, is_struct |-> TRUE,
        struct_fields |-> def.default.fields \o tr.decl_fields,
        struct_types |-> def.default.types \o tr.decl_types,
        init_fields |-> def.default.fields \o tr.init_fields,
        init_values |-> def.default.values \o tr.init_values,
        lets |-> def.default.fields \o tr.lets,
        body |-> def.builder]

\* generate_mixins emitting one variant and one arm per distinct name (the
\* first block of each name)
generate_mixins_first_of_name(def) ==
  LET firsts == SelectSeq([i \in 1..Len(def.mixins) |-> i],
                  LAMBDA i : \A j \in 1..(i - 1) :
                               def.mixins[j].name # def.mixins[i].name)
  IN [variants |-> [k \in 1..Len(firsts) |-> def.mixins[firsts[k]].name],
      arms |-> [k \in 1..Len(firsts) |->
                  [name |-> def.mixins[firsts[k]].name,
                   fields |-> def.mixins[firsts[k]].fields,
                   values |-> def.mixins[firsts[k]].values]]]

\* generate_mixins: the enum of the mixin names and, per mixin, the match
\* arm of extend(): `Builder { fields: values, .. other }`
generate_mixins(def) ==
  [variants |-> [i \in 1..Len(def.mixins) |-> def.mixins[i].name],
   arms |-> [i \in 1..Len(def.mixins) |->
               [name |-> def.mixins[i].name,
                fields |-> def.mixins[i].fields,
                values |-> def.mixins[i].values]]]

into_token_stream(def) ==
  [builder |-> generate_builder(def), mixins |-> generate_mixins(def)]

\* define_macro: a parse error is the whole output; otherwise definitions
\* are validated and emitted in order, and the first validation error
\* replaces everything emitted so far.
\* define_macro's loop assigning each definition's items to the stream
\* instead of extending it
RECURSIVE define_loop_overwriting(_, _, _)
define_loop_overwriting(definitions, i, stream) ==
  IF i > Len(definitions) THEN [status |-> "ok", diag |-> <<>>, stream |-> stream]
  ELSE IF Definition_validate(definitions[i]) # <<>>
  THEN [status |-> "validate_error",
        diag |-> Definition_validate(definitions[i]), stream |-> <<>>]
  ELSE define_loop_overwriting(definitions, i + 1,
                               <<into_token_stream(definitions[i])>>)

RECURSIVE define_loop(_, _, _)
define_loop(definitions, i, stream) ==
  IF i > Len(definitions) THEN [status |-> "ok", diag |-> <<>>, stream |-> stream]
  ELSE IF Definition_validate(definitions[i]) # <<>>
  THEN [status |-> "validate_error",
        diag |-> Definition_validate(definitions[i]), stream |-> <<>>]
  ELSE define_loop(definitions, i + 1,
                   Append(stream, into_token_stream(definitions[i])))

define_macro(ts) ==
  LET parsed == MultipleDefinition_parse(ts) IN
  IF ~parsed.ok THEN [status |-> "parse_error", diag |-> <<>>, stream |-> <<>>]
  ELSE define_loop(parsed.definitions, 1, <<>>)

(***************************************************************************)
(* The declarations around the macros: the target type and the code a      *)
(* builder block may hold.                                                 *)
(***************************************************************************)
\* pub struct Vehicle { number_wheels, electric }, Passenger { name } and
\* Cargo { weight } of the tests
TypeFields(ty) ==
  CASE ty = "Vehicle" -> {"wheels", "electric"}
    [] ty = "Passenger" -> {"name"}
    [] ty = "Cargo" -> {"weight"}
    [] OTHER -> {}

\* builder bodies.  "plain":  Vehicle { wheels, electric }
\*                  "add":    let wheels = extra + wheels;
\*                            Vehicle { wheels, electric }
\* (the shape of the doc example `let id = base_id + id; Order(id, shipped)`)
CodeRefs(code) ==
  CASE code = "plain" -> {"wheels", "electric"}
    [] code = "add" -> {"wheels", "electric", "extra"}
    [] OTHER -> {}

CodeEval(code, env) ==
  CASE code = "add" -> [x \in {"wheels", "electric"} |->
                          IF x = "wheels" THEN env["extra"] + env["wheels"]
                          ELSE env[x]]
    [] OTHER -> [x \in {"wheels", "electric"} |-> env[x]]

(***************************************************************************)
(* What the Rust compiler makes of the emitted items.                      *)
(***************************************************************************)
\* the fields of the builder type
Shape(b) == IF b.is_struct THEN Range(b.struct_fields) ELSE TypeFields(b.ty)

\* the builder items of one definition compile: the struct declaration is
\* `{ #(pub f: T),* , transient }` (a leading comma when there is no default
\* field, a missing type when the field has none), the default() literal
\* names every field of the type once, and the builder body is code whose
\* free names are bound by the lets before it
BuilderCompiles(b) ==
  /\ NoDup(b.init_fields)
  /\ Range(b.init_fields) = Shape(b)
  /\ b.is_struct =>
       /\ Len(b.struct_fields) > 0
       /\ NoDup(b.struct_fields)
       /\ \A i \in 1..Len(b.struct_types) : b.struct_types[i] # <<>>
       /\ b.body[1].k = "brace"
       /\ b.body[1].s \in {"plain", "add"}
       /\ CodeRefs(b.body[1].s) \subseteq Range(b.lets)

\* the mixin items compile: enum variants are distinct, and every arm
\* `Builder { #(f: v),* , .. other }` has at least one field (the comma
\* after the repetition is always emitted), no field twice, and only
\* fields of the builder type
MixinsCompile(b, m) ==
  /\ NoDup(m.variants)
  /\ \A i \in 1..Len(m.arms) :
       /\ Len(m.arms[i].fields) > 0
       /\ NoDup(m.arms[i].fields)
       /\ Range(m.arms[i].fields) \subseteq Shape(b)

ItemsCompile(items) ==
  BuilderCompiles(items.builder) /\ MixinsCompile(items.builder, items.mixins)

\* the output of one factori!() compiles
StreamCompiles(out) ==
  /\ out.status = "ok"
  /\ \A i \in 1..Len(out.stream) : ItemsCompile(out.stream[i])
  /\ NoDup([i \in 1..Len(out.stream) |-> out.stream[i].builder.ty])

\* the items in scope for a type (_Factori_Builder_ty, _Factori_Mixins_ty)
HasItems(out, ty) ==
  \E i \in 1..Len(out.stream) : out.stream[i].builder.ty = ty

ItemsOf(out, ty) ==
  out.stream[CHOOSE i \in 1..Len(out.stream) : out.stream[i].builder.ty = ty]

(***************************************************************************)
(* create.rs: the request parser.                                          *)
(***************************************************************************)
\* while input.peek(Token![:]) { `:` ident `,`? }
RECURSIVE mixins_loop(_, _, _)
mixins_loop(ts, i, mixins) ==
  IF ~IsPunct(ts, i, ":") THEN [ok |-> TRUE, i |-> i, mixins |-> mixins]
  ELSE IF ~IsId(ts, i + 1) THEN ParseError
  ELSE mixins_loop(ts, IF IsPunct(ts, i + 2, ",") THEN i + 3 ELSE i + 2,
                   Append(mixins, ts[i + 1].s))

\* the override loop passing over a `:mixin` reference it meets
RECURSIVE fields_loop_passing_refs(_, _, _, _)
fields_loop_passing_refs(ts, i, fields, values) ==
  IF i > Len(ts) THEN [ok |-> TRUE, fields |-> fields, values |-> values]
  ELSE IF IsPunct(ts, i, ":") /\ IsId(ts, i + 1)
  THEN fields_loop_passing_refs(ts,
         IF IsPunct(ts, i + 2, ",") THEN i + 3 ELSE i + 2, fields, values)
  ELSE IF ~IsId(ts, i) THEN ParseError
  ELSE IF ~IsPunct(ts, i + 1, ":") THEN ParseError
  ELSE IF ~IsExpr(ts, i + 2) THEN ParseError
  ELSE fields_loop_passing_refs(ts,
         IF IsPunct(ts, i + 3, ",") THEN i + 4 ELSE i + 3,
         Append(fields, ts[i].s), Append(values, ts[i + 2].n))

\* loop { if input.is_empty() { break; } ident `:` expr `,`? }
RECURSIVE fields_loop(_, _, _, _)
fields_loop(ts, i, fields, values) ==
  IF i > Len(ts) THEN [ok |-> TRUE, fields |-> fields, values |-> values]
  ELSE IF ~IsId(ts, i) THEN ParseError
  ELSE IF ~IsPunct(ts, i + 1, ":") THEN ParseError
  ELSE IF ~IsExpr(ts, i + 2) THEN ParseError
  ELSE fields_loop(ts, IF IsPunct(ts, i + 3, ",") THEN i + 4 ELSE i + 3,
                   Append(fields, ts[i].s), Append(values, ts[i + 2].n))

\* build_after_type keeping only the last `field: value` of a repeated field
build_after_type_last_wins(ty, ts, i) ==
  LET m == mixins_loop(ts, IF IsPunct(ts, i, ",") THEN i + 1 ELSE i, <<>>) IN
  IF ~m.ok THEN ParseError
  ELSE LET f == fields_loop(ts, m.i, <<>>, <<>>) IN
       IF ~f.ok THEN ParseError
       ELSE LET keep(k) == \A j \in (k + 1)..Len(f.fields) :
                             f.fields[j] # f.fields[k]
            IN [ok |-> TRUE, ty |-> ty, mixins |-> m.mixins,
                fields |-> SelectSeq(
                  [k \in 1..Len(f.fields) |->
                     IF keep(k) THEN f.fields[k] ELSE ""],
                  LAMBDA x : x # ""),
                values |-> SelectSeq(
                  [k \in 1..Len(f.values) |->
                     IF keep(k) THEN f.values[k] ELSE -1],
                  LAMBDA x : x # -1)]

\* Create::build_after_type: everything after `ty` or `ty, count`
build_after_type(ty, ts, i) ==
  LET m == mixins_loop(ts, IF IsPunct(ts, i, ",") THEN i + 1 ELSE i, <<>>) IN
  IF ~m.ok THEN ParseError
  ELSE LET f == fields_loop(ts, m.i, <<>>, <<>>) IN
       IF ~f.ok THEN ParseError
       ELSE [ok |-> TRUE, ty |-> ty, mixins |-> m.mixins,
             fields |-> f.fields, values |-> f.values]

\* impl Parse for Create
Create_parse(ts) ==
  IF ~IsId(ts, 1) THEN ParseError ELSE build_after_type(ts[1].s, ts, 2)

\* impl Parse for CreateVec: `ty , count` then the rest
CreateVec_parse(ts) ==
  IF ~IsId(ts, 1) THEN ParseError
  ELSE IF ~IsPunct(ts, 2, ",") THEN ParseError
  ELSE IF ~IsExpr(ts, 3) THEN ParseError
  ELSE LET c == build_after_type(ts[1].s, ts, 4) IN
       IF ~c.ok THEN ParseError
       ELSE [ok |-> TRUE, ty |-> ts[1].s, count |-> ts[3].n, create |-> c]

(***************************************************************************)
(* create.rs: the code of a request, as a syntax tree.                     *)
(*   [op |-> "Default"]                       factori::Default::default()  *)
(*   [op |-> "MixinDefault", mixin |-> m]     Mixin::default(Enum::m)      *)
(*   [op |-> "Extend", mixin |-> m, acc |-> e] Mixin::extend(Enum::m, e)   *)
(***************************************************************************)
\* mixins.fold(initial, |acc, mixin| extend(mixin, acc)) from position i
RECURSIVE fold_extend(_, _, _)
fold_extend(mixins, i, acc) ==
  IF i > Len(mixins) THEN acc
  ELSE fold_extend(mixins, i + 1,
                   [op |-> "Extend", mixin |-> mixins[i], acc |-> acc])

\* generate_code folding the mixins from the last to the first
generate_code_reversed(c) ==
  LET rev == [i \in 1..Len(c.mixins) |-> c.mixins[Len(c.mixins) + 1 - i]] IN
  [ty |-> c.ty,
   fields |-> c.fields,
   values |-> c.values,
   value |-> IF Len(rev) > 0
             THEN fold_extend(rev, 2, [op |-> "MixinDefault", mixin |-> rev[1]])
             ELSE [op |-> "Default"]]

\* generate_code leaving the overrides out of the struct literal
generate_code_no_overrides(c) ==
  [ty |-> c.ty,
   fields |-> <<>>,
   values |-> <<>>,
   value |-> IF Len(c.mixins) > 0
             THEN fold_extend(c.mixins, 2,
                              [op |-> "MixinDefault", mixin |-> c.mixins[1]])
             ELSE [op |-> "Default"]]

\* generate_code emitting Builder::build(Default::default()) whatever the
\* request names
generate_code_defaults_only(c) ==
  [ty |-> c.ty, fields |-> <<>>, values |-> <<>>, value |-> [op |-> "Default"]]

\* Create::generate_code:
\*   Builder::build(Builder { #(fields: values,)* .. value })
generate_code(c) ==
  [ty |-> c.ty,
   fields |-> c.fields,
   values |-> c.values,
   value |-> IF Len(c.mixins) > 0
             THEN fold_extend(c.mixins, 2,
                              [op |-> "MixinDefault", mixin |-> c.mixins[1]])
             ELSE [op |-> "Default"]]

(***************************************************************************)
(* The emitted request code, checked and run against the emitted items.    *)
(***************************************************************************)
\* the mixin names a value expression mentions
RECURSIVE MixinsUsed(_)
MixinsUsed(e) ==
  CASE e.op = "Default" -> {}
    [] e.op = "MixinDefault" -> {e.mixin}
    [] e.op = "Extend" -> {e.mixin} \cup MixinsUsed(e.acc)

\* the request code compiles: the type has a factory in scope, every mixin
\* is a variant of its enum, and the struct literal names only fields of
\* the builder type, each at most once
CodeCompiles(code, out) ==
  /\ StreamCompiles(out)
  /\ HasItems(out, code.ty)
  /\ MixinsUsed(code.value) \subseteq Range(ItemsOf(out, code.ty).mixins.variants)
  /\ Range(code.fields) \subseteq Shape(ItemsOf(out, code.ty).builder)
  /\ NoDup(code.fields)

\* the value of `Builder { #(fields: values),* , .. base }`
StructUpdate(fields, values, base) ==
  [x \in DOMAIN base |->
     IF x \in Range(fields)
     THEN values[CHOOSE i \in 1..Len(fields) : fields[i] = x]
     ELSE base[x]]

\* <Builder as factori::Default>::default()
DefaultCtor(b) ==
  [x \in Range(b.init_fields) |->
     b.init_values[CHOOSE i \in 1..Len(b.init_fields) : b.init_fields[i] = x]]

\* <Enum as factori::Mixin>::extend(Enum::name, other): the arm of the name
extend(items, name, other) ==
  LET arm == items.mixins.arms[CHOOSE i \in 1..Len(items.mixins.arms) :
                                 items.mixins.arms[i].name = name]
  IN StructUpdate(arm.fields, arm.values, other)

\* build() binding the fields of a fresh default record instead of self
build_from_default(b, self) ==
  IF b.is_struct THEN CodeEval(b.body[1].s, DefaultCtor(b)) ELSE self

\* <Builder as factori::Builder>::build(self)
build(b, self) ==
  IF b.is_struct THEN CodeEval(b.body[1].s, self) ELSE self

RECURSIVE EvalValue(_, _)
EvalValue(e, items) ==
  CASE e.op = "Default" -> DefaultCtor(items.builder)
    [] e.op = "MixinDefault" ->
         extend(items, e.mixin, DefaultCtor(items.builder))
    [] e.op = "Extend" -> extend(items, e.mixin, EvalValue(e.acc, items))

\* the record handed to build() by the request code
Merged(code, items) ==
  StructUpdate(code.fields, code.values, EvalValue(code.value, items))

\* the outcome of one request: a compile error, or the merged record and
\* the instance build() makes of it
RunCode(code, out) ==
  IF ~CodeCompiles(code, out)
  THEN [status |-> "compile_error", merged |-> <<>>, value |-> <<>>]
  ELSE [status |-> "ok",
        merged |-> Merged(code, ItemsOf(out, code.ty)),
        value |-> build(ItemsOf(out, code.ty).builder,
                        Merged(code, ItemsOf(out, code.ty)))]

\* create_macro: parse, generate, and what the generated code comes to
create_macro(ts, out) ==
  LET c == Create_parse(ts) IN
  IF ~c.ok THEN [status |-> "parse_error", merged |-> <<>>, value |-> <<>>]
  ELSE RunCode(generate_code(c), out)

\* create_vec_macro with the inclusive range 0..=count
create_vec_macro_inclusive(ts, out) ==
  LET cv == CreateVec_parse(ts) IN
  IF ~cv.ok THEN [status |-> "parse_error", merged |-> <<>>, value |-> <<>>]
  ELSE LET one == RunCode(generate_code(cv.create), out) IN
       IF one.status # "ok" THEN one
       ELSE [status |-> "ok", merged |-> one.merged,
             value |-> [i \in 1..(cv.count + 1) |->
                          RunCode(generate_code(cv.create), out).value]]

\* create_vec_macro: (0..count).map(|_| create_code).collect::<Vec<ty>>()
create_vec_macro(ts, out) ==
  LET cv == CreateVec_parse(ts) IN
  IF ~cv.ok THEN [status |-> "parse_error", merged |-> <<>>, value |-> <<>>]
  ELSE LET one == RunCode(generate_code(cv.create), out) IN
       IF one.status # "ok" THEN one
       ELSE [status |-> "ok", merged |-> one.merged,
             value |-> [i \in 1..cv.count |->
                          RunCode(generate_code(cv.create), out).value]]

(***************************************************************************)
(* The written program: the blocks of one factori!(Vehicle, { ... }) and   *)
(* one create!/create_vec! call, and their token streams.                  *)
(***************************************************************************)
\* one `name (: ty)? = value` entry of a block; ty is <<>> or <<type>>
Field(name, ty, value) == [name |-> name, ty |-> ty, value |-> value]

Block(kind, name, fields, code) ==
  [kind |-> kind, name |-> name, fields |-> fields, code |-> code]

\* `name : ty = value ,` / `name = value ,` (the last comma is left out)
RECURSIVE FieldTokens(_, _)
FieldTokens(fields, i) ==
  IF i > Len(fields) THEN <<>>
  ELSE <<Id(fields[i].name)>>
       \o (IF fields[i].ty # <<>> THEN <<P(":"), Id(fields[i].ty[1])>> ELSE <<>>)
       \o <<P("="), Lit(fields[i].value)>>
       \o (IF i < Len(fields) THEN <<P(",")>> ELSE <<>>)
       \o FieldTokens(fields, i + 1)

\* the tokens of one block.  Kind "other" is a block under a keyword the
\* parser does not know, kind "key" such a keyword with no body.
BlockTokens(b) ==
  CASE b.kind = "mixin" ->
         <<Id("mixin"), Id(b.name), Brace("", FieldTokens(b.fields, 1))>>
    [] b.kind = "builder" -> <<Id("builder"), Brace(b.code, <<>>)>>
    [] b.kind = "key" -> <<Id(b.name)>>
    [] b.kind = "other" -> <<Id(b.name), Brace("", FieldTokens(b.fields, 1))>>
    [] OTHER -> <<Id(b.kind), Brace("", FieldTokens(b.fields, 1))>>

\* factori!(Vehicle, { blocks })
SourceTokens(blocks) ==
  <<Id("Vehicle"), P(","),
    Brace("", Flatten([i \in 1..Len(blocks) |-> BlockTokens(blocks[i])]))>>

\* `, :mixin` and `, field: value`
RECURSIVE RefTokens(_, _)
RefTokens(mixins, i) ==
  IF i > Len(mixins) THEN <<>>
  ELSE <<P(","), P(":"), Id(mixins[i])>> \o RefTokens(mixins, i + 1)

RECURSIVE OverrideTokens(_, _)
OverrideTokens(overrides, i) ==
  IF i > Len(overrides) THEN <<>>
  ELSE <<P(","), Id(overrides[i].name), P(":"), Lit(overrides[i].value)>>
       \o OverrideTokens(overrides, i + 1)

\* create!(Vehicle, :m.., f: v..) / create_vec!(Vehicle, count, :m.., f: v..)
CallTokens(c) ==
  <<Id("Vehicle")>>
  \o (IF c.macro = "create_vec" THEN <<P(","), Lit(c.count)>> ELSE <<>>)
  \o RefTokens(c.mixins, 1) \o OverrideTokens(c.overrides, 1)

(***************************************************************************)
(* The inputs drawn for the model.                                         *)
(***************************************************************************)
DefaultTyped ==
  Block("default", "", <<Field("wheels", <<"u8">>, 4),
                         Field("electric", <<"u8">>, 0)>>, "")

DefaultUntyped ==
  Block("default", "", <<Field("wheels", <<>>, 4),
                         Field("electric", <<>>, 0)>>, "")

DefaultMixed ==
  Block("default", "", <<Field("wheels", <<"u8">>, 4),
                         Field("electric", <<>>, 0)>>, "")

Transient == Block("transient", "", <<Field("extra", <<"u8">>, 0)>>, "")

Builder(code) == Block("builder", "", <<>>, code)

Mixin(name, fields) == Block("mixin", name, fields, "")

\* the bodies drawn for `mixin bike` and `mixin trike`
BikeBodies ==
  { <<Field("wheels", <<>>, 2)>>,
    <<Field("wheels", <<>>, 2), Field("electric", <<>>, 1)>> }

TrikeBodies ==
  { <<Field("wheels", <<>>, 3)>>,
    <<Field("electric", <<>>, 2), Field("extra", <<>>, 6)>>,
    <<>> }

\* definitions for the composer: default, transient?, two mixins, builder?
ComposeSources ==
  { <<DefaultTyped>> \o tr \o <<Mixin("bike", a), Mixin("trike", b)>> \o bu :
      tr \in {<<>>, <<Transient>>},
      a \in BikeBodies, b \in TrikeBodies,
      bu \in {<<>>, <<Builder("plain")>>, <<Builder("add")>>} }

\* blocks for the definition parser, in any order and number
ParserBlocks ==
  { DefaultTyped, DefaultUntyped, DefaultMixed, Transient, Builder("plain"),
    Mixin("bike", <<Field("wheels", <<>>, 2)>>),
    Mixin("trike", <<Field("wheels", <<>>, 3)>>),
    Block("other", "traits", <<Field("wheels", <<>>, 1)>>, ""),
    Block("key", "traits", <<>>, "") }

ParserSources == SeqUpTo(ParserBlocks, MaxBlocks)

\* mixin references: the two declared names and an undeclared one
MixinRefs == {"bike", "trike", "ghost"}

\* overrides: default fields, the transient field and an unknown field
Overrides ==
  { Field("wheels", <<>>, 7), Field("wheels", <<>>, 9),
    Field("electric", <<>>, 8), Field("extra", <<>>, 7),
    Field("color", <<>>, 7) }

Calls(macro, counts) ==
  { [macro |-> macro, count |-> n, mixins |-> ms, overrides |-> os] :
      n \in counts, ms \in SeqUpTo(MixinRefs, MaxMixins),
      os \in SeqUpTo(Overrides, MaxOverrides) }

(***************************************************************************)
(* The state machine: one factori!() expansion, then one call.             *)
(***************************************************************************)
VARIABLES source, emitted, call, result, pc

vars == <<source, emitted, call, result, pc>>

NoOutput == [status |-> "none", diag |-> <<>>, stream |-> <<>>]

NoCall == [macro |-> "none", count |-> 0, mixins |-> <<>>, overrides |-> <<>>]

NoResult == [status |-> "none", merged |-> <<>>, value |-> <<>>]

Start(sources) ==
  /\ source \in sources
  /\ emitted = NoOutput
  /\ call = NoCall
  /\ result = NoResult
  /\ pc = "start"

Init == Start(ComposeSources)

InitParser == Start(ParserSources)

\* factori!(Vehicle, { source })
Define ==
  /\ pc = "start"
  /\ emitted' = define_macro(SourceTokens(source))
  /\ pc' = "defined"
  /\ UNCHANGED <<source, call, result>>

\* create!(Vehicle, ...)
Create ==
  /\ pc = "defined"
  /\ \E c \in Calls("create", {0}) :
       /\ call' = c
       /\ result' = create_macro(CallTokens(c), emitted)
  /\ pc' = "created"
  /\ UNCHANGED <<source, emitted>>

\* create_vec!(Vehicle, count, ...)
CreateVec ==
  /\ pc = "defined"
  /\ \E c \in Calls("create_vec", 0..MaxCount) :
       /\ call' = c
       /\ result' = create_vec_macro(CallTokens(c), emitted)
  /\ pc' = "created"
  /\ UNCHANGED <<source, emitted>>

Next == Define \/ Create \/ CreateVec

Spec == Init /\ [][Next]_vars

NextParser == Define

SpecParser == InitParser /\ [][NextParser]_vars

(***************************************************************************)
(* What the written program says, read off the source blocks and the call  *)
(* (not off the parser's or the generators' output).                       *)
(***************************************************************************)
BlocksOf(kind) == {i \in 1..Len(source) : source[i].kind = kind}

HasBlock(kind) == BlocksOf(kind) # {}

FieldNames(b) == {b.fields[i].name : i \in 1..Len(b.fields)}

\* the value a block writes for field x (its last entry for x)
ValueIn(b, x) ==
  b.fields[CHOOSE i \in 1..Len(b.fields) :
             /\ b.fields[i].name = x
             /\ \A j \in 1..Len(b.fields) : b.fields[j].name = x => j <= i].value

\* the declared mixin names and the block of a declared mixin
DeclaredMixins == {source[i].name : i \in BlocksOf("mixin")}

MixinNamed(m) ==
  source[CHOOSE i \in BlocksOf("mixin") : source[i].name = m]

\* default and transient field names of the written definition
DefaultFields == UNION {FieldNames(source[i]) : i \in BlocksOf("default")}

TransientFields == UNION {FieldNames(source[i]) : i \in BlocksOf("transient")}

\* the value of x's default expression
DefaultOf(x) ==
  IF x \in DefaultFields
  THEN ValueIn(source[CHOOSE i \in BlocksOf("default") : TRUE], x)
  ELSE ValueIn(source[CHOOSE i \in BlocksOf("transient") : TRUE], x)

\* positions in the call whose mixin / override names field x
MixinsSetting(x) ==
  {i \in 1..Len(call.mixins) :
     call.mixins[i] \in DeclaredMixins
       /\ x \in FieldNames(MixinNamed(call.mixins[i]))}

OverridesSetting(x) ==
  {i \in 1..Len(call.overrides) : call.overrides[i].name = x}

Max(S) == CHOOSE x \in S : \A y \in S : y <= x

\* the value the written request asks for in field x: the override, else
\* the last requested mixin naming x, else the default expression
Requested(x) ==
  IF OverridesSetting(x) # {}
  THEN call.overrides[Max(OverridesSetting(x))].value
  ELSE IF MixinsSetting(x) # {}
  THEN ValueIn(MixinNamed(call.mixins[Max(MixinsSetting(x))]), x)
  ELSE DefaultOf(x)

\* the code of the written builder block
BuilderCode == source[CHOOSE i \in BlocksOf("builder") : TRUE].code

\* the instances a successful call returned: the one of create!, the
\* elements of create_vec!
Instances ==
  IF call.macro = "create_vec" THEN Range(result.value) ELSE {result.value}

Done == pc = "created"

Succeeded == pc = "created" /\ result.status = "ok"

(***************************************************************************)
(* Claims about the composer (specification Spec).                         *)
(***************************************************************************)
\* C1: mixins are applied in the written order on top of the defaults: a
\* field that no override names and that some requested mixin sets holds
\* the value written by the last mixin of the list that names it.
C1_MixinOrder ==
  Succeeded =>
    \A x \in DOMAIN result.merged :
      (OverridesSetting(x) = {} /\ MixinsSetting(x) # {}) =>
        result.merged[x] =
          ValueIn(MixinNamed(call.mixins[Max(MixinsSetting(x))]), x)

\* create!(Vehicle, :trike, :bike) where both set wheels gives bike's 2
C1_Witness ==
  /\ Succeeded
  /\ call.mixins = <<"trike", "bike">>
  /\ call.overrides = <<>>
  /\ "wheels" \in FieldNames(MixinNamed("trike"))
  /\ "wheels" \in FieldNames(MixinNamed("bike"))
  /\ result.merged["wheels"] = 2

\* C2: an override outranks every mixin and the default: the record handed
\* to build() holds the override's value in the overridden field.
C2_OverrideWins ==
  Succeeded =>
    \A i \in 1..Len(call.overrides) :
      result.merged[call.overrides[i].name] = call.overrides[i].value

\* wheels overridden while both requested mixins set wheels
C2_Witness ==
  /\ Succeeded
  /\ call.mixins = <<"bike", "trike">>
  /\ MixinsSetting("wheels") = {1, 2}
  /\ call.overrides = <<Field("wheels", <<>>, 9)>>
  /\ result.merged["wheels"] = 9

\* C3: a field named by no requested mixin and no override keeps its default
\* expression's value; with no mixins and no overrides the result is the
\* transform of the default record.
C3_UntouchedDefault ==
  Succeeded =>
    /\ \A x \in DOMAIN result.merged :
         (OverridesSetting(x) = {} /\ MixinsSetting(x) = {}) =>
           result.merged[x] = DefaultOf(x)
    /\ (call.mixins = <<>> /\ call.overrides = <<>>) =>
         \A v \in Instances :
           /\ v["electric"] = DefaultOf("electric")
           /\ v["wheels"] =
                IF HasBlock("builder") /\ BuilderCode = "add"
                THEN DefaultOf("extra") + DefaultOf("wheels")
                ELSE DefaultOf("wheels")

\* bike touches only wheels: electric keeps the default 0
C3_Witness ==
  /\ Succeeded
  /\ call.macro = "create"
  /\ call.mixins = <<"bike">>
  /\ call.overrides = <<>>
  /\ FieldNames(MixinNamed("bike")) = {"wheels"}
  /\ result.merged["wheels"] = 2
  /\ result.value["electric"] = 0

\* C4: build() runs last, on the merged record: every instance is the
\* builder body applied to the requested values of the default and
\* transient fields, and has no transient field.
C4_TransformLast ==
  (Succeeded /\ HasBlock("builder")) =>
    \A v \in Instances :
      /\ DOMAIN v = {"wheels", "electric"}
      /\ v["electric"] = Requested("electric")
      /\ v["wheels"] =
           IF BuilderCode = "add"
           THEN Requested("extra") + Requested("wheels")
           ELSE Requested("wheels")

\* create!(Vehicle, :bike, :trike, extra: 7) with trike setting extra = 6:
\* the override's 7 is added to bike's 2 wheels
C4_Witness ==
  /\ Succeeded
  /\ call.macro = "create"
  /\ HasBlock("builder")
  /\ BuilderCode = "add"
  /\ call.mixins = <<"bike", "trike">>
  /\ "extra" \in FieldNames(MixinNamed("trike"))
  /\ call.overrides = <<Field("extra", <<>>, 7)>>
  /\ result.value["wheels"] = 9
  /\ "extra" \notin DOMAIN result.value

\* C5: create_vec! ends as create! does for the same mixins and overrides
\* and, when it succeeds, returns exactly count elements, each the instance
\* create! returns.
C5_CreateVec ==
  (Done /\ call.macro = "create_vec") =>
    LET single == create_macro(CallTokens([call EXCEPT !.macro = "create"]),
                               emitted)
    IN /\ result.status = single.status
       /\ result.status = "ok" =>
            /\ Len(result.value) = call.count
            /\ \A i \in 1..Len(result.value) : result.value[i] = single.value

C5_Witness ==
  /\ Succeeded
  /\ call.macro = "create_vec"
  /\ call.count = MaxCount
  /\ call.mixins = <<"bike">>
  /\ call.overrides = <<Field("electric", <<>>, 8)>>
  /\ Len(result.value) = MaxCount
  /\ result.value[MaxCount]["electric"] = 8

\* the request as the create parser read it
ParsedCall ==
  IF call.macro = "create_vec"
  THEN (IF CreateVec_parse(CallTokens(call)).ok
        THEN CreateVec_parse(CallTokens(call)).create ELSE ParseError)
  ELSE Create_parse(CallTokens(call))

\* the parser kept every mixin reference and every override, in order
ParsedAsWritten ==
  /\ ParsedCall.ok
  /\ ParsedCall.mixins = call.mixins
  /\ ParsedCall.fields = [i \in 1..Len(call.overrides) |-> call.overrides[i].name]
  /\ ParsedCall.values = [i \in 1..Len(call.overrides) |-> call.overrides[i].value]

\* some field is overridden more than once in the call
RepeatedOverride ==
  \E i, j \in 1..Len(call.overrides) :
    i < j /\ call.overrides[i].name = call.overrides[j].name

\* nothing else is wrong with the program: the factory compiles, the
\* mixins are declared and the overridden fields exist
OtherwiseValid ==
  /\ StreamCompiles(emitted)
  /\ Range(call.mixins) \subseteq DeclaredMixins
  /\ \A i \in 1..Len(call.overrides) :
       call.overrides[i].name \in Shape(ItemsOf(emitted, "Vehicle").builder)

\* C6 as stated: a call that overrides one field more than once succeeds
\* and the field takes the value of the last occurrence.
C6_LastOverrideWins ==
  (Done /\ RepeatedOverride /\ OtherwiseValid) =>
    /\ result.status = "ok"
    /\ \A i \in 1..Len(call.overrides) :
         result.merged[call.overrides[i].name]
           = call.overrides[Max(OverridesSetting(call.overrides[i].name))].value

\* C6 amended: the request parser accepts a repeated override and keeps
\* every occurrence, so the emitted struct literal names the field twice;
\* that does not compile and the call yields no instance.
C6_RepeatedOverrideRejected ==
  (Done /\ RepeatedOverride) =>
    /\ ParsedAsWritten
    /\ result.status = "compile_error"
    /\ result.value = <<>>

\* create!(Vehicle, wheels: 7, wheels: 9) on a factory that compiles
C6_Witness ==
  /\ Done
  /\ OtherwiseValid
  /\ call.mixins = <<>>
  /\ call.overrides = <<Field("wheels", <<>>, 7), Field("wheels", <<>>, 9)>>
  /\ result.status = "compile_error"

\* C7: a call naming an undeclared mixin, or overriding a field that is
\* neither a default nor a transient field, yields no instance; the request
\* parser accepts it as written and the error comes from the emitted code.
C7_UnknownNameIsError ==
  (Done /\ (\/ ~(Range(call.mixins) \subseteq DeclaredMixins)
            \/ \E i \in 1..Len(call.overrides) :
                 call.overrides[i].name \notin DefaultFields \cup TransientFields))
    => /\ ParsedAsWritten
       /\ result.status = "compile_error"
       /\ result.value = <<>>

\* create!(Vehicle, :bike, :ghost, color: 7) on a factory that compiles
C7_Witness ==
  /\ Done
  /\ StreamCompiles(emitted)
  /\ call.mixins = <<"bike", "ghost">>
  /\ call.overrides = <<Field("color", <<>>, 7)>>
  /\ result.status = "compile_error"

(***************************************************************************)
(* Claims about the definition parser and the validator (specification     *)
(* SpecParser).                                                            *)
(***************************************************************************)
Defined == pc = "defined"

Count(kind) == Cardinality(BlocksOf(kind))

\* every block of the source is one of the four kinds of the grammar
KnownBlocksOnly == \A i \in 1..Len(source) :
  source[i].kind \in {"default", "transient", "builder", "mixin"}

\* exactly one default, at most one transient, at most one builder
WellCounted ==
  Count("default") = 1 /\ Count("transient") <= 1 /\ Count("builder") <= 1

\* C8: parsing fails whenever the default block is missing or a default,
\* transient or builder block is repeated, wherever the repeat stands;
\* a sequence of known blocks with none of these faults is accepted, with
\* any number of mixin blocks anywhere.
C8_BlockCounts ==
  Defined =>
    /\ ~WellCounted => emitted.status = "parse_error"
    /\ (KnownBlocksOnly /\ WellCounted) => emitted.status # "parse_error"

\* mixin, default, mixin, then a second default: rejected
C8_Witness ==
  /\ Defined
  /\ Len(source) = MaxBlocks
  /\ source[1].kind = "mixin"
  /\ source[2].kind = "default"
  /\ source[Len(source)].kind = "default"
  /\ emitted.status = "parse_error"

\* the default fields written without a type
UntypedDefaults ==
  UNION {{source[i].fields[j].name : j \in {j \in 1..Len(source[i].fields) :
                                             source[i].fields[j].ty = <<>>}} :
         i \in BlocksOf("default")}

Known(blocks) ==
  SelectSeq(blocks, LAMBDA b : b.kind \notin {"other", "key"})

\* C10 as stated: a block under an unknown keyword is silently ignored and
\* the remaining blocks are parsed, with no error.
C10_UnknownBlockIgnored ==
  (Defined /\ HasBlock("other") /\ WellCounted) =>
    /\ emitted.status # "parse_error"
    /\ emitted = define_macro(SourceTokens(Known(source)))

\* C10 amended: the parser drops only the unknown keyword.  A body after
\* it is then read as the next key and the definition is rejected; an
\* unknown keyword with no body is ignored and the definition is parsed as
\* if the keyword were not there.
C10_UnknownKeywordOnly ==
  Defined =>
    /\ HasBlock("other") => emitted.status = "parse_error"
    /\ (HasBlock("key") /\ ~HasBlock("other")) =>
         emitted = define_macro(SourceTokens(Known(source)))

\* default { .. } traits { .. } is rejected
C10_Witness ==
  /\ Defined
  /\ Len(source) = 2
  /\ source[1].kind = "default"
  /\ source[2].kind = "other"
  /\ emitted.status = "parse_error"

\* default { .. } traits mixin bike { .. } is accepted
C10_WitnessBareKey ==
  /\ Defined
  /\ HasBlock("key")
  /\ HasBlock("mixin")
  /\ emitted.status = "ok"

(***************************************************************************)
(* Several definitions in one declaration (specification SpecMulti).       *)
(* Here source is the list of the written definitions, each a target type  *)
(* with its blocks.                                                        *)
(***************************************************************************)
Decl(ty, blocks) == [ty |-> ty, blocks |-> blocks]

\* ty, { blocks } ty, { blocks } ...
DeclTokens(decls) ==
  Flatten([d \in 1..Len(decls) |->
    <<Id(decls[d].ty), P(","),
      Brace("", Flatten([i \in 1..Len(decls[d].blocks) |->
                           BlockTokens(decls[d].blocks[i])]))>>])

\* the definitions drawn: accepted ones, ones the validator rejects
\* (builder with untyped defaults) and ones the parser rejects (no default
\* block, two default blocks)
MultiDecls ==
  { Decl("Vehicle", <<DefaultUntyped>>),
    Decl("Vehicle", <<DefaultTyped, Transient,
                      Mixin("bike", <<Field("wheels", <<>>, 2)>>),
                      Builder("add")>>),
    Decl("Vehicle", <<DefaultUntyped, Builder("plain")>>),
    Decl("Vehicle", <<Mixin("bike", <<Field("wheels", <<>>, 2)>>)>>),
    Decl("Passenger", <<Block("default", "", <<Field("name", <<>>, 5)>>, "")>>),
    Decl("Passenger", <<Block("default", "", <<Field("name", <<>>, 5)>>, ""),
                        Mixin("tom", <<Field("name", <<>>, 6)>>)>>),
    Decl("Passenger", <<Block("default", "", <<Field("name", <<>>, 5)>>, ""),
                        Builder("plain")>>),
    Decl("Cargo", <<Block("default", "", <<Field("weight", <<>>, 0)>>, "")>>),
    Decl("Cargo", <<Block("default", "", <<Field("weight", <<>>, 0)>>, ""),
                    Block("default", "", <<Field("weight", <<>>, 0)>>, "")>>) }

\* declarations of definitions for pairwise different types, in any order
MultiSources ==
  { ds \in SeqUpTo(MultiDecls, MaxDefs) :
      \A i, j \in 1..Len(ds) : ds[i].ty = ds[j].ty => i = j }

InitMulti == Start(MultiSources)

\* factori!(ty, { .. } ty, { .. } ...)
DefineAll ==
  /\ pc = "start"
  /\ emitted' = define_macro(DeclTokens(source))
  /\ pc' = "defined"
  /\ UNCHANGED <<source, call, result>>

NextMulti == DefineAll

SpecMulti == InitMulti /\ [][NextMulti]_vars

\* what factori!() emits for one definition written alone
Alone(d) == define_macro(DeclTokens(<<d>>))

\* C11 as stated: whatever the other definitions of the declaration and
\* their order, each definition gets the artifacts it gets when it is
\* processed alone.
C11_ArtifactsAsAlone ==
  Defined =>
    \A i \in 1..Len(source) :
      Alone(source[i]).status = "ok" =>
        /\ emitted.status = "ok"
        /\ \E j \in 1..Len(emitted.stream) :
             emitted.stream[j] = Alone(source[i]).stream[1]

\* C11 amended: when every definition of the declaration is accepted, the
\* declaration emits for each definition, at its position, the artifacts it
\* gets alone; when one is rejected by the parser or the validator, the
\* declaration emits the error only and no artifacts for any definition.
C11_ArtifactsAsAloneWhenAllAccepted ==
  Defined =>
    /\ (\A i \in 1..Len(source) : Alone(source[i]).status = "ok") =>
         /\ emitted.status = "ok"
         /\ Len(emitted.stream) = Len(source)
         /\ \A i \in 1..Len(source) :
              emitted.stream[i] = Alone(source[i]).stream[1]
    /\ (\E i \in 1..Len(source) : Alone(source[i]).status # "ok") =>
         /\ emitted.status \in {"parse_error", "validate_error"}
         /\ emitted.stream = <<>>

\* Passenger with a mixin, then Vehicle with transient, mixin and builder
C11_Witness ==
  /\ Defined
  /\ Len(source) >= 2
  /\ source[1].ty = "Passenger"
  /\ source[2].ty = "Vehicle"
  /\ emitted.status = "ok"
  /\ emitted.stream[1].mixins.variants = <<"tom">>
  /\ emitted.stream[2].builder.is_struct
  /\ emitted.stream[2] = Alone(source[2]).stream[1]

(***************************************************************************)
(* More claims about accepted definitions (specification SpecParser).      *)
(***************************************************************************)
\* two mixin blocks of the written definition carry the same name
RepeatedMixinName ==
  \E i, j \in BlocksOf("mixin") : i < j /\ source[i].name = source[j].name

\* the mixin names in the order they are written
WrittenMixinNames ==
  LET at == SelectSeq([i \in 1..Len(source) |-> i],
                      LAMBDA i : source[i].kind = "mixin")
  IN [k \in 1..Len(at) |-> source[at[k]].name]

\* C12 as stated: a definition accepted by the parser and the validator has
\* pairwise distinct mixin names.
C12_AcceptedMixinsDistinct ==
  (Defined /\ emitted.status = "ok") => ~RepeatedMixinName

\* C12 amended: the parser and the validator do not compare mixin names: a
\* definition with a repeated mixin name and no other fault is accepted and
\* every mixin block is emitted as an enum variant; the repeated variant
\* does not compile, so the definition does not become a compiled one.
C12_RepeatedMixinFailsInEnum ==
  (Defined /\ RepeatedMixinName) =>
    /\ (KnownBlocksOnly /\ WellCounted
          /\ ~(HasBlock("builder") /\ UntypedDefaults # {})) =>
         /\ emitted.status = "ok"
         /\ emitted.stream[1].mixins.variants = WrittenMixinNames
    /\ ~StreamCompiles(emitted)

\* mixin bike { .. } default { .. } mixin bike { .. }
C12_Witness ==
  /\ Defined
  /\ Len(source) = 3
  /\ source[1].kind = "mixin"
  /\ source[2].kind = "default"
  /\ source[3] = source[1]
  /\ emitted.status = "ok"
  /\ emitted.stream[1].mixins.variants = <<source[1].name, source[1].name>>
  /\ ~StreamCompiles(emitted)

\* C13: a definition with a transient block and no builder block is not
\* accepted as a valid definition.
C13_TransientNeedsBuilder ==
  (Defined /\ HasBlock("transient") /\ ~HasBlock("builder")) =>
    ~StreamCompiles(emitted)

(***************************************************************************)
(* Call after call on one factory (specification SpecCalls).  pc tells     *)
(* whether the call before the last one succeeded ("after_ok") or failed   *)
(* ("after_error"); "created" is the state after the first call.           *)
(***************************************************************************)
\* factories for repeated calls: bike sets wheels; trike sets wheels, or
\* electric and the transient field
CallSources ==
  { <<DefaultTyped>> \o tr
      \o <<Mixin("bike", <<Field("wheels", <<>>, 2)>>), Mixin("trike", b)>>
      \o bu :
      tr \in {<<>>, <<Transient>>},
      b \in { <<Field("wheels", <<>>, 3)>>,
              <<Field("electric", <<>>, 2), Field("extra", <<>>, 6)>> },
      bu \in {<<>>, <<Builder("plain")>>, <<Builder("add")>>} }

\* the calls drawn at each turn: at most one mixin and one override
RepeatCalls(macro, counts) ==
  { [macro |-> macro, count |-> n, mixins |-> ms, overrides |-> os] :
      n \in counts, ms \in SeqUpTo(MixinRefs, 1), os \in SeqUpTo(Overrides, 1) }

InitCalls == Start(CallSources)

Callable == pc \in {"defined", "created", "after_ok", "after_error"}

AfterCall ==
  IF pc = "defined" THEN "created"
  ELSE IF result.status = "ok" THEN "after_ok" ELSE "after_error"

\* a create! that drops the emitted items when its code does not compile
Call_dropping_items ==
  /\ Callable
  /\ \E c \in RepeatCalls("create", {0}) :
       /\ call' = c
       /\ result' = create_macro(CallTokens(c), emitted)
  /\ emitted' = IF result'.status = "ok" THEN emitted ELSE NoOutput
  /\ pc' = AfterCall
  /\ UNCHANGED source

\* one more create!(Vehicle, ...)
Call ==
  /\ Callable
  /\ \E c \in RepeatCalls("create", {0}) :
       /\ call' = c
       /\ result' = create_macro(CallTokens(c), emitted)
  /\ pc' = AfterCall
  /\ UNCHANGED <<source, emitted>>

\* one more create_vec!(Vehicle, count, ...)
CallVec ==
  /\ Callable
  /\ \E c \in RepeatCalls("create_vec", 0..MaxCount) :
       /\ call' = c
       /\ result' = create_vec_macro(CallTokens(c), emitted)
  /\ pc' = AfterCall
  /\ UNCHANGED <<source, emitted>>

NextCalls == Define \/ Call \/ CallVec

SpecCalls == InitCalls /\ [][NextCalls]_vars

\* what the written factory emits, and what the last call returns when it
\* is the first call on it
FreshItems == define_macro(SourceTokens(source))

AsFirstCall ==
  IF call.macro = "create_vec"
  THEN create_vec_macro(CallTokens(call), FreshItems)
  ELSE create_macro(CallTokens(call), FreshItems)

EmptyMixins ==
  {source[i].name : i \in {i \in BlocksOf("mixin") : source[i].fields = <<>>}}

\* the written definition without its empty mixin blocks
WithoutEmptyMixins ==
  SelectSeq(source, LAMBDA b : ~(b.kind = "mixin" /\ b.fields = <<>>))

\* the definition compiles once its empty mixin blocks are taken out, the
\* requested mixins are declared and the overrides name fields of the
\* builder type, each once
ValidButForEmptyMixins ==
  LET out == define_macro(SourceTokens(WithoutEmptyMixins)) IN
  /\ StreamCompiles(out)
  /\ Range(call.mixins) \subseteq DeclaredMixins
  /\ \A i \in 1..Len(call.overrides) :
       call.overrides[i].name \in Shape(ItemsOf(out, "Vehicle").builder)
  /\ ~RepeatedOverride

\* C15: a mixin block with an empty field list is accepted and compiles to
\* a function returning its input: a call requesting it succeeds and every
\* field holds what the call requests without it.
C15_EmptyMixinIsIdentity ==
  (Done /\ Range(call.mixins) \cap EmptyMixins # {} /\ ValidButForEmptyMixins) =>
    /\ emitted.status = "ok"
    /\ result.status = "ok"
    /\ \A x \in DOMAIN result.merged : result.merged[x] = Requested(x)

(***************************************************************************)
(* Requests written in any order (specification SpecRequest).  Here call   *)
(* holds the items of the request as written: mixin references and         *)
(* overrides, interleaved.                                                 *)
(***************************************************************************)
Item(kind, name, value) == [kind |-> kind, name |-> name, value |-> value]

\* `, :name` or `, name: value` for each item
RECURSIVE ItemTokens(_, _)
ItemTokens(items, i) ==
  IF i > Len(items) THEN <<>>
  ELSE (IF items[i].kind = "mixin"
        THEN <<P(","), P(":"), Id(items[i].name)>>
        ELSE <<P(","), Id(items[i].name), P(":"), Lit(items[i].value)>>)
       \o ItemTokens(items, i + 1)

ItemCallTokens(c) ==
  <<Id("Vehicle")>>
  \o (IF c.macro = "create_vec" THEN <<P(","), Lit(c.count)>> ELSE <<>>)
  \o ItemTokens(c.items, 1)

RequestItems ==
  { Item("mixin", "bike", 0), Item("mixin", "trike", 0),
    Item("override", "wheels", 7), Item("override", "electric", 8) }

ItemCalls(macro, counts) ==
  { [macro |-> macro, count |-> n, items |-> its] :
      n \in counts, its \in SeqUpTo(RequestItems, MaxItems) }

\* two factories, without and with a builder
RequestSources ==
  { <<DefaultTyped, Mixin("bike", <<Field("wheels", <<>>, 2)>>),
      Mixin("trike", <<Field("wheels", <<>>, 3)>>)>> \o bu :
      bu \in {<<>>, <<Transient, Builder("add")>>} }

InitRequest == Start(RequestSources)

\* create!(Vehicle, items...)
CreateItems ==
  /\ pc = "defined"
  /\ \E c \in ItemCalls("create", {0}) :
       /\ call' = c
       /\ result' = create_macro(ItemCallTokens(c), emitted)
  /\ pc' = "created"
  /\ UNCHANGED <<source, emitted>>

\* create_vec!(Vehicle, count, items...)
CreateVecItems ==
  /\ pc = "defined"
  /\ \E c \in ItemCalls("create_vec", 0..MaxCount) :
       /\ call' = c
       /\ result' = create_vec_macro(ItemCallTokens(c), emitted)
  /\ pc' = "created"
  /\ UNCHANGED <<source, emitted>>

NextRequest == Define \/ CreateItems \/ CreateVecItems

SpecRequest == InitRequest /\ [][NextRequest]_vars

\* a mixin reference is written after an override
MixinAfterOverride ==
  \E i, j \in 1..Len(call.items) :
    i < j /\ call.items[i].kind = "override" /\ call.items[j].kind = "mixin"

ItemsOfKind(kind) == SelectSeq(call.items, LAMBDA it : it.kind = kind)

\* the request as the create parser read it
ParsedItems ==
  IF call.macro = "create_vec"
  THEN (IF CreateVec_parse(ItemCallTokens(call)).ok
        THEN CreateVec_parse(ItemCallTokens(call)).create ELSE ParseError)
  ELSE Create_parse(ItemCallTokens(call))

\* C16: all mixin references must come before all overrides: a request with
\* a `:mixin` after a `field: value` ends in a parse error and yields
\* nothing; any other request is accepted with its mixins and its overrides
\* in the written order.
C16_MixinsBeforeOverrides ==
  Done =>
    /\ MixinAfterOverride =>
         /\ ~ParsedItems.ok
         /\ result.status = "parse_error"
         /\ result.value = <<>>
    /\ ~MixinAfterOverride =>
         /\ ParsedItems.ok
         /\ result.status # "parse_error"
         /\ ParsedItems.mixins =
              [k \in 1..Len(ItemsOfKind("mixin")) |-> ItemsOfKind("mixin")[k].name]
         /\ ParsedItems.fields =
              [k \in 1..Len(ItemsOfKind("override")) |->
                 ItemsOfKind("override")[k].name]
         /\ ParsedItems.values =
              [k \in 1..Len(ItemsOfKind("override")) |->
                 ItemsOfKind("override")[k].value]

\* create!(Vehicle, :bike, electric: 8, :trike)
C16_Witness ==
  /\ Done
  /\ call.macro = "create"
  /\ call.items = <<Item("mixin", "bike", 0), Item("override", "electric", 8),
                    Item("mixin", "trike", 0)>>
  /\ result.status = "parse_error"

====
